---- MODULE Spec2Model ----
(***************************************************************************)
(* A model of scripts/build_ytd_2024_2025.py: the column resolver          *)
(* (_pick_col), the award-type classifier (_map_type_category), the        *)
(* amount reconciler (_merge_in_amounts_if_needed) and the run of main.    *)
(*                                                                         *)
(* Strings are TLA+ strings; Len, SubSeq and \o act on them character by   *)
(* character, so substring tests and lowercasing are computed, not assumed.*)
(***************************************************************************)
EXTENDS Integers, Sequences, FiniteSets, TLC

VARIABLES
    pc,          \* position of the run / of the function under test
    cols,        \* _pick_col: the column list
    exact,       \* _pick_col: priority_exact
    contains,    \* _pick_col: priority_contains
    picked,      \* _pick_col: the value returned
    type_code_col, type_text_col,   \* _map_type_category: resolved columns (or None)
    row,         \* _map_type_category: the row classified
    category,    \* _map_type_category: the value returned for the row
    fs,          \* the files of a run and the clock: which primary files exist,
                 \* the primary table, the sidecar files, the order in which the
                 \* directory lists them, today's date
    src,         \* main: the primary file found
    df,          \* main: the working table [columns, rows]
    date_col, grant_col, ic_col, act_col,   \* main: resolved columns
    amount_col,  \* main: the amount column
    candidates,  \* _merge_in_amounts_if_needed: the globbed sidecar paths
    next_cand,   \* _merge_in_amounts_if_needed: position of the loop in candidates
    loaded,      \* the sidecar paths whose load was attempted, in order
    stderr,      \* lines written to stderr
    err,         \* the exception that ended the run, or None
    status,      \* the exit status returned by main, or None
    agg,         \* main: the aggregated records
    written      \* the output files written so far, with their content

vars == <<pc, cols, exact, contains, picked, type_code_col, type_text_col, row, category,
          fs, src, df, date_col, grant_col, ic_col, act_col, amount_col, candidates,
          next_cand,          loaded, stderr, err, status, agg, written>>

pickVars == <<exact, contains, picked>>
typeVars == <<row, category>>
roleVars == <<cols, date_col, grant_col, ic_col, act_col, type_code_col, type_text_col>>
walkVars == <<candidates, next_cand, loaded>>
mainVars == <<fs, src, df, amount_col, stderr, err, status, agg, written>>

(***************************************************************************)
(* Python values                                                           *)
(***************************************************************************)
\* Python's None, for a column name that did not resolve.
None == "<None>"

\* A cell of a table: a number (in tenths, so that 1.5 is 15), a string, a
\* calendar date (YYYYMMDD) or a missing value (NaN / NaT / None).
Num(n)  == [t |-> "num", v |-> n]
Str(s)  == [t |-> "str", v |-> s]
Date(d) == [t |-> "date", v |-> d]
NA      == [t |-> "na"]

IsNA(c) == c.t = "na"

(***************************************************************************)
(* str.lower() and the `in` substring test                                 *)
(***************************************************************************)
UpperChars == <<"A","B","C","D","E","F","G","H","I","J","K","L","M",
                "N","O","P","Q","R","S","T","U","V","W","X","Y","Z">>
LowerChars == <<"a","b","c","d","e","f","g","h","i","j","k","l","m",
                "n","o","p","q","r","s","t","u","v","w","x","y","z">>

\* the lowercase letter of each uppercase letter
ToLower == [k \in {UpperChars[n] : n \in 1..Len(UpperChars)} |->
              LowerChars[CHOOSE n \in 1..Len(UpperChars) : UpperChars[n] = k]]

LowerChar(ch) == IF ch \in DOMAIN ToLower THEN ToLower[ch] ELSE ch

RECURSIVE Lower(_)
Lower(s) ==
    IF Len(s) = 0 THEN ""
    ELSE LowerChar(SubSeq(s, 1, 1)) \o Lower(SubSeq(s, 2, Len(s)))

\* sub in s
In(sub, s) ==
    \E i \in 1..(Len(s) - Len(sub) + 1) : SubSeq(s, i, i + Len(sub) - 1) = sub

(***************************************************************************)
(* _pick_col                                                               *)
(***************************************************************************)
Range(q) == {q[k] : k \in 1..Len(q)}

\* cl = [c.lower() for c in cols]
LowerAll(cs) == [i \in 1..Len(cs) |-> Lower(cs[i])]

\* cl.index(x): the first position holding x
Index(cl, x) == CHOOSE i \in 1..Len(cl) : cl[i] = x /\ \A j \in 1..(i-1) : cl[j] # x

\* for want in priority_exact: if want.lower() in cl: return cols[cl.index(..)]
RECURSIVE PickExactFrom(_, _, _, _)
PickExactFrom(cs, cl, priority_exact, i) ==
    IF i > Len(priority_exact) THEN None
    ELSE LET want == Lower(priority_exact[i])
         IN  IF want \in Range(cl)
             THEN cs[Index(cl, want)]
             ELSE PickExactFrom(cs, cl, priority_exact, i + 1)

\* for c in cols: if any(sub in c.lower() for sub in priority_contains): return c
RECURSIVE PickContainsFrom(_, _, _)
PickContainsFrom(cs, priority_contains, j) ==
    IF j > Len(cs) THEN None
    ELSE LET lc == Lower(cs[j])
         IN  IF \E sub \in priority_contains : In(sub, lc)
             THEN cs[j]
             ELSE PickContainsFrom(cs, priority_contains, j + 1)

PickCol_ContainsFirst(cs, priority_exact, priority_contains) ==
    LET c == PickContainsFrom(cs, priority_contains, 1)
    IN  IF c # None THEN c ELSE PickExactFrom(cs, LowerAll(cs), priority_exact, 1)

PickCol(cs, priority_exact, priority_contains) ==
    LET e == PickExactFrom(cs, LowerAll(cs), priority_exact, 1)
    IN  IF e # None THEN e ELSE PickContainsFrom(cs, priority_contains, 1)

(***************************************************************************)
(* _map_type_category                                                      *)
(***************************************************************************)
\* Texts that pd.to_numeric parses, with the number they denote (in tenths).
NumberText == [s \in {"1", "3", "2.5"} |->
                 IF s = "1" THEN 10 ELSE IF s = "3" THEN 30 ELSE 25]

\* pd.to_numeric(x, errors="coerce")
ToNumeric(c) ==
    IF c.t = "num" THEN c
    ELSE IF c.t = "str" /\ c.v \in DOMAIN NumberText THEN Num(NumberText[c.v])
    ELSE NA

\* .fillna(d)
FillNA(c, d) == IF IsNA(c) THEN d ELSE c

\* .astype(int) on a float: the fraction is dropped, rounding toward zero
AsInt(n) == IF n >= 0 THEN n \div 10 ELSE -((-n) \div 10)

\* .astype(str) of a number
DigitChars == <<"0","1","2","3","4","5","6","7","8","9">>
RECURSIVE NatText(_)
NatText(n) == IF n < 10 THEN DigitChars[n + 1]
              ELSE NatText(n \div 10) \o DigitChars[(n % 10) + 1]
NumText(n) == IF n < 0 THEN "-" \o NatText((-n) \div 10) \o "." \o NatText((-n) % 10)
              ELSE NatText(n \div 10) \o "." \o NatText(n % 10)

\* str(datetime.date): YYYY-MM-DD
Pad2(n) == IF n < 10 THEN "0" \o NatText(n) ELSE NatText(n)
DateText(d) == NatText(d \div 10000) \o "-" \o Pad2((d \div 100) % 100) \o "-" \o Pad2(d % 100)

\* .fillna("").astype(str)
AsStr(c) == IF c.t = "str" THEN c.v
            ELSE IF c.t = "num" THEN NumText(c.v)
            ELSE IF c.t = "date" THEN DateText(c.v)
            ELSE ""

\* np.select([code.eq(1), ..., code.eq(5)], [...], default="other")
SelectByCode(code) ==
    IF code = 1 THEN "new"
    ELSE IF code = 2 THEN "competing_renewal"
    ELSE IF code = 3 THEN "supplement"
    ELSE IF code = 4 THEN "extension"
    ELSE IF code = 5 THEN "noncompeting_continuation"
    ELSE "other"

\* pick with the competing/renewal rule tested before the non-competing rule
pick_CompetingFirst(x) ==
    IF In("new", x) THEN "new"
    ELSE IF In("supp", x) THEN "supplement"
    ELSE IF In("comp", x) /\ (In("renew", x) \/ In("continuation", x)) THEN "competing_renewal"
    ELSE IF In("non", x) /\ In("comp", x) THEN "noncompeting_continuation"
    ELSE IF In("exten", x) THEN "extension"
    ELSE "other"

\* pick with the "new" rule tested last
pick_NewLast(x) ==
    IF In("supp", x) THEN "supplement"
    ELSE IF In("non", x) /\ In("comp", x) THEN "noncompeting_continuation"
    ELSE IF In("exten", x) THEN "extension"
    ELSE IF In("comp", x) /\ (In("renew", x) \/ In("continuation", x)) THEN "competing_renewal"
    ELSE IF In("new", x) THEN "new"
    ELSE "other"

\* def pick(x)
pick(x) ==
    IF In("new", x) THEN "new"
    ELSE IF In("supp", x) THEN "supplement"
    ELSE IF In("non", x) /\ In("comp", x) THEN "noncompeting_continuation"
    ELSE IF In("exten", x) THEN "extension"
    ELSE IF In("comp", x) /\ (In("renew", x) \/ In("continuation", x)) THEN "competing_renewal"
    ELSE "other"

\* _map_type_category, for one row r of df (a function from column name to cell)
MapTypeCategory(r, code_col, text_col) ==
    IF code_col # None
    THEN SelectByCode(AsInt(FillNA(ToNumeric(r[code_col]), Num(-10)).v))
    ELSE IF text_col # None
    THEN pick(Lower(AsStr(r[text_col])))
    ELSE "other"

(***************************************************************************)
(* str.upper(), str.strip(), whitespace collapsing                         *)
(***************************************************************************)
ToUpper == [k \in {LowerChars[n] : n \in 1..Len(LowerChars)} |->
              UpperChars[CHOOSE n \in 1..Len(LowerChars) : LowerChars[n] = k]]

UpperChar(ch) == IF ch \in DOMAIN ToUpper THEN ToUpper[ch] ELSE ch

RECURSIVE Upper(_)
Upper(s) ==
    IF Len(s) = 0 THEN ""
    ELSE UpperChar(SubSeq(s, 1, 1)) \o Upper(SubSeq(s, 2, Len(s)))

RECURSIVE LStrip(_)
LStrip(s) == IF Len(s) > 0 /\ SubSeq(s, 1, 1) = " " THEN LStrip(SubSeq(s, 2, Len(s))) ELSE s
RECURSIVE RStrip(_)
RStrip(s) == IF Len(s) > 0 /\ SubSeq(s, Len(s), Len(s)) = " "
             THEN RStrip(SubSeq(s, 1, Len(s) - 1)) ELSE s
Strip(s) == RStrip(LStrip(s))

\* .str.replace(r"\s+", " ", regex=True)
RECURSIVE CollapseSpaces(_)
CollapseSpaces(s) ==
    IF Len(s) < 2 THEN s
    ELSE IF SubSeq(s, 1, 1) = " " /\ SubSeq(s, 2, 2) = " "
         THEN CollapseSpaces(SubSeq(s, 2, Len(s)))
         ELSE SubSeq(s, 1, 1) \o CollapseSpaces(SubSeq(s, 2, Len(s)))

\* _normalize_org, for one cell
NormalizeOrg(c) == CollapseSpaces(Strip(AsStr(c)))

\* _map_mechanism, for one (already stripped and uppercased) activity code
MapMechanism(activity) ==
    LET a == Strip(activity)
    IN  IF Len(a) > 0 /\ Upper(SubSeq(a, 1, 1)) \in {"R", "U", "P", "K", "T"}
        THEN Upper(SubSeq(a, 1, 1))
        ELSE "Other"

(***************************************************************************)
(* Dates: pd.to_datetime(x, errors="coerce", utc=True)                     *)
(*          .dt.tz_convert(TZ).dt.date                                     *)
(***************************************************************************)
IsDigit(ch) == \E i \in 1..10 : DigitChars[i] = ch
DigitVal(ch) == (CHOOSE i \in 1..10 : DigitChars[i] = ch) - 1

RECURSIVE NatOf(_)
NatOf(s) == IF Len(s) = 0 THEN 0
            ELSE 10 * NatOf(SubSeq(s, 1, Len(s) - 1)) + DigitVal(SubSeq(s, Len(s), Len(s)))

IsLeap(y) == (y % 4 = 0 /\ y % 100 # 0) \/ y % 400 = 0
DaysIn(y, m) == IF m = 2 THEN (IF IsLeap(y) THEN 29 ELSE 28)
                ELSE IF m \in {4, 6, 9, 11} THEN 30 ELSE 31
ValidYMD(y, m, d) == m \in 1..12 /\ d >= 1 /\ d <= DaysIn(y, m)
YMD(y, m, d) == y * 10000 + m * 100 + d
YearOf(d)  == d \div 10000
MonthOf(d) == (d \div 100) % 100
DayOf(d)   == d % 100

\* the calendar day before d
PrevDay(d) ==
    IF DayOf(d) > 1 THEN d - 1
    ELSE IF MonthOf(d) > 1
         THEN YMD(YearOf(d), MonthOf(d) - 1, DaysIn(YearOf(d), MonthOf(d) - 1))
         ELSE YMD(YearOf(d) - 1, 12, 31)

\* "YYYY-MM-DD" is read as that day's midnight UTC
IsoDateText(s) ==
    /\ Len(s) = 10
    /\ SubSeq(s, 5, 5) = "-" /\ SubSeq(s, 8, 8) = "-"
    /\ \A i \in {1, 2, 3, 4, 6, 7, 9, 10} : IsDigit(SubSeq(s, i, i))
    /\ ValidYMD(NatOf(SubSeq(s, 1, 4)), NatOf(SubSeq(s, 6, 7)), NatOf(SubSeq(s, 9, 10)))

\* A number is read as nanoseconds after 1970-01-01T00:00Z; every amount of
\* the model is far less than a day of nanoseconds.
EpochUTC == 19700101

\* Midnight UTC, and the first hours after it, fall on the evening before in
\* America/New_York, so .dt.date is the previous calendar day.
ParseDate(c) ==
    IF c.t = "date" THEN c
    ELSE IF c.t = "num" THEN Date(PrevDay(EpochUTC))
    ELSE IF c.t = "str" /\ IsoDateText(c.v)
         THEN Date(PrevDay(YMD(NatOf(SubSeq(c.v, 1, 4)), NatOf(SubSeq(c.v, 6, 7)),
                               NatOf(SubSeq(c.v, 9, 10)))))
    ELSE NA

\* _same_month_day
SameMonthDay(year_ref, month, day) ==
    IF ValidYMD(year_ref, month, day) THEN YMD(year_ref, month, day)
    ELSE YMD(year_ref, month, 28)

\* days from 0001-01-01 (a Monday) to d, for date - weekday*1D
DaysBeforeYear(y) == (y - 1) * 365 + (y - 1) \div 4 - (y - 1) \div 100 + (y - 1) \div 400
RECURSIVE DaysBeforeMonth(_, _)
DaysBeforeMonth(y, m) == IF m = 1 THEN 0 ELSE DaysBeforeMonth(y, m - 1) + DaysIn(y, m - 1)
Ordinal(d) == DaysBeforeYear(YearOf(d)) + DaysBeforeMonth(YearOf(d), MonthOf(d)) + DayOf(d)
Weekday(d) == (Ordinal(d) - 1) % 7                 \* Monday = 0
WeekStart(d) == Ordinal(d) - Weekday(d)            \* the Monday, as an ordinal

(***************************************************************************)
(* Inputs of the two pure functions                                        *)
(***************************************************************************)
MaxCols  == 3     \* longest column list given to _pick_col
MaxExact == 2     \* longest priority_exact list
MaxFrags == 3     \* most fragments a type label is built from

\* Column names: an exact candidate in two spellings, names that only
\* contain a candidate, and a name that matches nothing.
NamePool     == {"date", "Date", "award_date", "Notice_Dt", "org"}
ExactPool    == {"date", "notice_dt", "action_date"}
ContainsPool == {"date", "notice"}

RECURSIVE SeqsUpTo(_, _)
SeqsUpTo(S, n) ==
    IF n = 0 THEN {<<>>}
    ELSE LET shorter == SeqsUpTo(S, n - 1)
         IN  shorter \cup {Append(q, x) : q \in {p \in shorter : Len(p) = n - 1}, x \in S}

Distinct(q) == \A i, j \in 1..Len(q) : i # j => q[i] # q[j]

\* a table's column names are pairwise distinct
ColumnLists == {q \in SeqsUpTo(NamePool, MaxCols) : Distinct(q)}

\* Type labels: fragments of the labels of the feed, joined.
FragPool == {"New", "Renewal", "Supplement", "Non-", "Competing ", "Extension",
             "Continuation"}

RECURSIVE Join(_)
Join(q) == IF Len(q) = 0 THEN "" ELSE Head(q) \o Join(Tail(q))

Labels == {Join(q) : q \in SeqsUpTo(FragPool, MaxFrags)}

\* Type codes: the five codes, their neighbours, fractions, and text.
CodeCells == {Num(n) : n \in {-10, -5, 0, 10, 15, 20, 30, 40, 50, 59, 60}}
             \cup {NA, Str("1"), Str("2.5"), Str("n/a")}
TextCells == {Str(s) : s \in Labels} \cup {NA}

TypeRow(code, text) == [c \in {"type_code", "award_type"} |->
                          IF c = "type_code" THEN code ELSE text]

(***************************************************************************)
(* The pure functions as one-step machines                                 *)
(***************************************************************************)
IdlePick == exact = <<>> /\ contains = {} /\ picked = None
IdleType == row = TypeRow(NA, NA) /\ category = None
IdleRoles == date_col = None /\ grant_col = None /\ ic_col = None /\ act_col = None
IdleMain ==
    /\ fs = [exists |-> {}, main |-> [columns |-> <<>>, rows |-> <<>>],
             sidecars |-> <<>>, listing |-> <<>>, today |-> 0]
    /\ src = None /\ df = [columns |-> <<>>, rows |-> <<>>] /\ amount_col = None
    /\ candidates = <<>> /\ next_cand = 0 /\ loaded = <<>>
    /\ stderr = <<>> /\ err = [kind |-> "", msg |-> ""] /\ status = None
    /\ agg = {} /\ written = <<>>

InitPick ==
    /\ pc = "call"
    /\ cols \in ColumnLists
    /\ exact \in SeqsUpTo(ExactPool, MaxExact)
    /\ contains \in SUBSET ContainsPool
    /\ picked = None
    /\ type_code_col = None /\ type_text_col = None
    /\ IdleType /\ IdleRoles /\ IdleMain

CallPickCol ==
    /\ pc = "call"
    /\ picked' = PickCol(cols, exact, contains)
    /\ pc' = "returned"
    /\ UNCHANGED <<exact, contains, typeVars, roleVars, walkVars, mainVars>>

SpecPick == InitPick /\ [][CallPickCol]_vars

InitType ==
    /\ pc = "call"
    /\ type_code_col \in {None, "type_code"}
    /\ type_text_col \in {None, "award_type"}
    /\ \E code \in CodeCells, text \in TextCells : row = TypeRow(code, text)
    /\ category = None
    /\ cols = <<>>
    /\ IdlePick /\ IdleRoles /\ IdleMain

CallMapTypeCategory ==
    /\ pc = "call"
    /\ category' = MapTypeCategory(row, type_code_col, type_text_col)
    /\ pc' = "returned"
    /\ UNCHANGED <<row, pickVars, roleVars, walkVars, mainVars>>

SpecType == InitType /\ [][CallMapTypeCategory]_vars

(***************************************************************************)
(* Column roles                                                            *)
(***************************************************************************)
\* _detect_amount_col
DetectAmountCol(cs) ==
    PickCol(cs,
        <<"award_amount", "award_amount_usd", "amount_this_action", "action_amount",
          "obligation_amount", "obligated_amount", "award_obligated_amount",
          "award_amount_current_usd", "current_amount", "transaction_amount",
          "fy_total_cost", "total_cost", "total_cost_subproject",
          "total_cost_amount", "project_total_cost", "award_total_cost",
          "direct_cost", "direct_cost_amt", "direct_costs">>,
        {"amount", "oblig", "cost", "dollar", "total"})

\* _detect_date_col
DetectDateCol(cs) ==
    PickCol(cs,
        <<"award_notice_date", "notice_date", "action_date", "award_date", "date",
          "notice_dt", "award_dt", "transaction_date">>,
        {"notice", "award", "action", "date"})

\* the identifier role, as resolved in main and for each sidecar
DetectGrantCol(cs) ==
    PickCol(cs,
        <<"grant_number", "core_project_num", "project_num", "project_number",
          "application_id">>,
        {"grant", "project", "application"})

DetectIcCol(cs) ==
    PickCol(cs,
        <<"admin_ic", "ic", "ic_code", "institute", "administrative_ic", "admin_ic_name">>,
        {"admin", "ic", "instit"})

DetectActCol(cs) == PickCol(cs, <<"activity_code", "activity">>, {"activity", "code"})
DetectTypeCodeCol(cs) == PickCol(cs, <<"type_code", "award_type_code">>, {})
DetectTypeTextCol(cs) == PickCol(cs, <<"award_type", "type">>, {"type"})

(***************************************************************************)
(* Tables: [columns |-> sequence of names, rows |-> sequence of rows],     *)
(* a row being a function from the column names to cells.                  *)
(***************************************************************************)
\* df[name] = values, one cell per row: a new column goes last
SetColumn(t, name, values) ==
    [columns |-> IF name \in Range(t.columns) THEN t.columns ELSE Append(t.columns, name),
     rows    |-> [k \in 1..Len(t.rows) |->
                    [c \in DOMAIN t.rows[k] \cup {name} |->
                        IF c = name THEN values[k] ELSE t.rows[k][c]]]]

\* cells are equal as join keys; missing keys match each other
CellEq(a, b) == a.t = b.t /\ (IsNA(a) \/ a.v = b.v)

RECURSIVE SumAmounts(_, _)
SumAmounts(rows, c) ==
    IF Len(rows) = 0 THEN 0 ELSE rows[1][c].v + SumAmounts(Tail(rows), c)

(***************************************************************************)
(* _merge_in_amounts_if_needed: the work on one candidate                  *)
(***************************************************************************)
\* cand[date2] = pd.to_datetime(cand[date2], ...).dt.date  (when date2)
\* cand = cand[[grant2, date2, amt2]].dropna(subset=[amt2])
PrepareCand(cand, grant2, date2, amt2) ==
    LET kept == {grant2, date2, amt2} \ {None}
        conv(r) == [c \in kept |-> IF c = date2 THEN ParseDate(r[c]) ELSE r[c]]
        parsed == [k \in 1..Len(cand.rows) |-> conv(cand.rows[k])]
        NotNull(r) == ~IsNA(r[amt2])
    IN  SelectSeq(parsed, NotNull)

\* the name a right-hand column takes in the merged table, suffixes=("", "_amt")
RightName(c, leftCols, sharedKeys) ==
    IF c \in leftCols /\ c \notin sharedKeys THEN c \o "_amt" ELSE c

\* one merged row: the left row, and the right row's cells (missing when there
\* is no match); a key named alike on both sides is one column
Combine(l, r, matched, rightCols, sharedKeys) ==
    LET leftCols == DOMAIN l
        added == {RightName(c, leftCols, sharedKeys) : c \in rightCols \ sharedKeys}
    IN  [n \in leftCols \cup added |->
            IF n \in leftCols THEN l[n]
            ELSE LET c == CHOOSE x \in rightCols \ sharedKeys :
                              RightName(x, leftCols, sharedKeys) = n
                 IN  IF matched THEN r[c] ELSE NA]

\* how="left": every left row, once per matching right row, once if none
LeftJoin(left, right, left_on, right_on, rightCols, sharedKeys) ==
    LET RowsFor(l) ==
            LET IsMatch(r) == \A k \in 1..Len(left_on) : CellEq(l[left_on[k]], r[right_on[k]])
                hits == SelectSeq(right, IsMatch)
            IN  IF Len(hits) = 0
                THEN <<Combine(l, l, FALSE, rightCols, sharedKeys)>>
                ELSE [k \in 1..Len(hits) |->
                        Combine(l, hits[k], TRUE, rightCols, sharedKeys)]
        RECURSIVE Go(_)
        Go(ls) == IF Len(ls) = 0 THEN <<>> ELSE RowsFor(Head(ls)) \o Go(Tail(ls))
    IN  Go(left)

\* the strict join keeping only the first sidecar row of each key
StrictJoin_FirstMatch(left, right, gcol, dcol, grant2, date2, amt2) ==
    LET SameKey(r, q) == CellEq(r[grant2], q[grant2]) /\ CellEq(r[date2], q[date2])
        IsFirst(k) == \A n \in 1..(k - 1) : ~SameKey(right[n], right[k])
        firsts == SelectSeq([k \in 1..Len(right) |-> k], IsFirst)
        shared == (IF gcol = grant2 THEN {grant2} ELSE {})
                  \cup (IF dcol = date2 THEN {date2} ELSE {})
    IN  LeftJoin(left, [k \in 1..Len(firsts) |-> right[firsts[k]]],
                 <<gcol, dcol>>, <<grant2, date2>>, {grant2, date2, amt2}, shared)

\* df_join.merge(cand, left_on=[grant_col, date_col], right_on=[grant2, date2], how="left")
StrictJoin(left, right, gcol, dcol, grant2, date2, amt2) ==
    LET shared == (IF gcol = grant2 THEN {grant2} ELSE {})
                  \cup (IF dcol = date2 THEN {date2} ELSE {})
    IN  LeftJoin(left, right, <<gcol, dcol>>, <<grant2, date2>>, {grant2, date2, amt2}, shared)

\* cand[[grant2, amt2]].groupby(grant2, as_index=False)[amt2].sum(): one row per
\* identifier, rows with a missing identifier left out
GroupSum(right, grant2, amt2) ==
    LET keys == {right[k][grant2].v : k \in {n \in 1..Len(right) : ~IsNA(right[n][grant2])}}
        RowsOf(key) ==
            LET Has(r) == ~IsNA(r[grant2]) /\ r[grant2].v = key
            IN  SelectSeq(right, Has)
        RECURSIVE Build(_)
        Build(K) ==
            IF K = {} THEN <<>>
            ELSE LET key == CHOOSE x \in K : TRUE
                 IN  <<[c \in {grant2, amt2} |->
                          IF c = amt2 THEN Num(SumAmounts(RowsOf(key), amt2))
                          ELSE Str(key)]>> \o Build(K \ {key})
    IN  Build(keys)

\* df_join.merge(<grouped>, left_on=grant_col, right_on=grant2, how="left")
GrantOnlyJoin(left, right, gcol, grant2, amt2) ==
    LET shared == IF gcol = grant2 THEN {grant2} ELSE {}
    IN  LeftJoin(left, GroupSum(right, grant2, amt2), <<gcol>>, <<grant2>>, {grant2, amt2},
                 shared)

\* m1: the join of df with one loaded candidate whose amount and identifier
\* columns resolved
JoinCandidate(left, cand, gcol, dcol) ==
    LET amt2   == DetectAmountCol(cand.columns)
        date2  == DetectDateCol(cand.columns)
        grant2 == DetectGrantCol(cand.columns)
        right  == PrepareCand(cand, grant2, date2, amt2)
    IN  IF date2 # None
        THEN StrictJoin(left, right, gcol, dcol, grant2, date2, amt2)
        ELSE GrantOnlyJoin(left, right, gcol, grant2, amt2)

\* m1[amt2].notna().any()
AnyAmount(m1, amt2) == \E k \in 1..Len(m1) : ~IsNA(m1[k][amt2])

\* m1.rename(columns={amt2: "award_amount_merged"})
RenameColumn(rows, old, new) ==
    [k \in 1..Len(rows) |->
        [c \in (DOMAIN rows[k] \ {old}) \cup {new} |->
            IF c = new THEN rows[k][old] ELSE rows[k][c]]]

RECURSIVE SetToSeq(_)
SetToSeq(S) == IF S = {} THEN <<>>
               ELSE LET x == CHOOSE y \in S : TRUE IN <<x>> \o SetToSeq(S \ {x})

\* the table returned: the left columns, then those the merge added
MergedTable(leftCols, m1, amt2) ==
    LET rows == RenameColumn(m1, amt2, "award_amount_merged")
    IN  [columns |-> leftCols \o SetToSeq(DOMAIN rows[1] \ Range(leftCols)),
         rows    |-> rows]

(***************************************************************************)
(* Files                                                                   *)
(***************************************************************************)
SRC_MAIN_1 == "nih_awards_all.csv.zst"
SRC_MAIN_2 == "nih_awards_all.csv"

\* _first_existing
RECURSIVE FirstExisting(_, _)
FirstExisting(paths, existing) ==
    IF Len(paths) = 0 THEN None
    ELSE IF Head(paths) \in existing THEN Head(paths)
    ELSE FirstExisting(Tail(paths), existing)

EndsWith(s, suffix) ==
    Len(s) >= Len(suffix) /\ SubSeq(s, Len(s) - Len(suffix) + 1, Len(s)) = suffix

\* the file name matches f"*amount*{pat}", pat being "*" followed by ext
MatchesAmountPattern(name, ext) ==
    EndsWith(name, ext) /\ In("amount", SubSeq(name, 1, Len(name) - Len(ext)))

\* glob.glob(...): the matching names, in the order the directory lists them
Glob(listing, ext) ==
    LET Hit(name) == MatchesAmountPattern(name, ext)
    IN  SelectSeq(listing, Hit)

\* for pat in ("*.csv.zst", "*.csv", "*.feather", "*.parquet"): candidates.extend(...)
GlobCandidates(listing) ==
    Glob(listing, ".csv.zst") \o Glob(listing, ".csv")
        \o Glob(listing, ".feather") \o Glob(listing, ".parquet")

(***************************************************************************)
(* Errors and messages                                                     *)
(***************************************************************************)
NoError == [kind |-> "", msg |-> ""]
RuntimeError(text) == [kind |-> "RuntimeError", msg |-> text]
AttributeError(text) == [kind |-> "AttributeError", msg |-> text]

MsgNoDate  == "Could not detect a date column in main file."
MsgNoGrant == "Could not detect a grant/project identifier column in main file."
MsgNoIc    == "Could not detect an IC column in main file."
MsgNoOrg   == "'str' object has no attribute 'fillna'"
MsgNoSidecar ==
    "No dollar column found in main file AND no sidecar amount file under pages/data/reporter/*amount*.\n"
    \o "Fix: ensure the upstream processed award-amounts CSV is copied (e.g., nih_award_amounts*.csv.zst)."
MsgExhausted ==
    "Could not obtain dollars. The main file has no amount column and none of the sidecar '*amount*' files "
    \o "could be merged on (grant_number[, award_date])."

(***************************************************************************)
(* main, step by step                                                      *)
(***************************************************************************)
\* src = _first_existing(SRC_MAIN_1, SRC_MAIN_2); if not src: ... return 2
Main_FindSource ==
    /\ pc = "main"
    /\ src' = FirstExisting(<<SRC_MAIN_1, SRC_MAIN_2>>, fs.exists)
    /\ IF src' = None
       THEN /\ stderr' = Append(stderr, "ERROR: Could not find " \o SRC_MAIN_1 \o " or " \o SRC_MAIN_2)
            /\ status' = "2"
            /\ pc' = "exited"
       ELSE /\ pc' = "load"
            /\ UNCHANGED <<stderr, status>>
    /\ UNCHANGED <<pickVars, typeVars, roleVars, walkVars, fs, df, amount_col, err, agg, written>>

\* df = _load_csv_any(src) ... type_text_col = _pick_col(...)
Main_ResolveColumns ==
    /\ pc = "load"
    /\ df' = fs.main
    /\ cols' = fs.main.columns
    /\ date_col' = DetectDateCol(cols')
    /\ grant_col' = IF date_col' = None THEN None ELSE DetectGrantCol(cols')
    /\ ic_col' = IF grant_col' = None THEN None ELSE DetectIcCol(cols')
    /\ IF ic_col' = None
       THEN /\ err' = RuntimeError(IF date_col' = None THEN MsgNoDate
                                   ELSE IF grant_col' = None THEN MsgNoGrant ELSE MsgNoIc)
            /\ pc' = "raised"
            /\ UNCHANGED <<act_col, type_code_col, type_text_col>>
       ELSE /\ act_col' = DetectActCol(cols')
            /\ type_code_col' = DetectTypeCodeCol(cols')
            /\ type_text_col' = DetectTypeTextCol(cols')
            /\ pc' = "parse"
            /\ UNCHANGED err
    /\ UNCHANGED <<pickVars, typeVars, walkVars, fs, src, amount_col, stderr, status, agg, written>>

\* df[date_col] = pd.to_datetime(...).dt.date; df = df[df[date_col].notna()]
\* ... df["type_category"] = _map_type_category(df, type_code_col, type_text_col)
ParsedBasics(t) ==
    LET Each(tt, F(_)) == [k \in 1..Len(tt.rows) |-> F(tt.rows[k])]
        DateOf(r) == ParseDate(r[date_col])
        t1 == SetColumn(t, date_col, Each(t, DateOf))
        HasDate(r) == ~IsNA(r[date_col])
        t2 == [columns |-> t1.columns, rows |-> SelectSeq(t1.rows, HasDate)]
        OrgOf(r) == Str(NormalizeOrg(r["org_name"]))
        t3 == SetColumn(t2, "org_name_norm", Each(t2, OrgOf))
        IcOf(r) == Str(Upper(Strip(AsStr(r[ic_col]))))
        t4 == SetColumn(t3, "admin_ic", Each(t3, IcOf))
        ActOf(r) == IF act_col # None THEN Str(Upper(Strip(AsStr(r[act_col])))) ELSE Str("")
        t5 == SetColumn(t4, "activity_code", Each(t4, ActOf))
        MechOf(r) == IF act_col # None THEN Str(MapMechanism(r["activity_code"].v))
                     ELSE Str("Other")
        t6 == SetColumn(t5, "mechanism", Each(t5, MechOf))
        TypeOf(r) == Str(MapTypeCategory(r, type_code_col, type_text_col))
    IN  SetColumn(t6, "type_category", Each(t6, TypeOf))

Main_ParseBasics ==
    /\ pc = "parse"
    /\ IF "org_name" \notin Range(df.columns)
       THEN \* df.get("org_name", "") is the str "", which has no fillna
            /\ err' = AttributeError(MsgNoOrg)
            /\ pc' = "raised"
            /\ UNCHANGED df
       ELSE /\ df' = ParsedBasics(df)
            /\ pc' = "merge"
            /\ UNCHANGED err
    /\ UNCHANGED <<pickVars, typeVars, roleVars, walkVars, fs, src, amount_col, stderr,
                   status, agg, written>>

\* _merge_in_amounts_if_needed, up to the loop
Merge_Begin ==
    /\ pc = "merge"
    /\ LET found == DetectAmountCol(df.columns)
       IN  IF found # None
           THEN /\ amount_col' = found
                /\ pc' = "aggregate"
                /\ UNCHANGED <<candidates, next_cand, err>>
           ELSE /\ candidates' = GlobCandidates(fs.listing)
                /\ next_cand' = 1
                /\ UNCHANGED amount_col
                /\ IF candidates' = <<>>
                   THEN err' = RuntimeError(MsgNoSidecar) /\ pc' = "raised"
                   ELSE pc' = "walk" /\ UNCHANGED err
    /\ UNCHANGED <<pickVars, typeVars, roleVars, loaded, fs, src, df, stderr, status, agg,
                   written>>

\* what one pass of the loop comes to for the candidate `file`, the table
\* being joined having the rows `left`: "unreadable" (the load raised),
\* "no_columns" (no amount or no identifier column), "no_amounts" (the join
\* has no non-null amount) or "accept"
TryOutcome_AcceptAnyJoin(file, left, gcol, dcol) ==
    IF ~file.readable THEN "unreadable"
    ELSE IF DetectAmountCol(file.table.columns) = None
            \/ DetectGrantCol(file.table.columns) = None THEN "no_columns"
    ELSE "accept"

TryOutcome(file, left, gcol, dcol) ==
    IF ~file.readable THEN "unreadable"
    ELSE IF DetectAmountCol(file.table.columns) = None
            \/ DetectGrantCol(file.table.columns) = None THEN "no_columns"
    ELSE IF AnyAmount(JoinCandidate(left, file.table, gcol, dcol),
                      DetectAmountCol(file.table.columns)) THEN "accept"
    ELSE "no_amounts"

\* one pass of `for path in candidates:`
Merge_TryCandidate ==
    /\ pc = "walk"
    /\ next_cand <= Len(candidates)
    /\ LET p == candidates[next_cand]
           file == fs.sidecars[p]
           outcome == TryOutcome(file, df.rows, grant_col, date_col)
       IN  /\ loaded' = Append(loaded, p)
           /\ stderr' = IF outcome = "unreadable"
                        THEN Append(stderr, "[warn] Could not read " \o p)
                        ELSE stderr
           /\ IF outcome = "accept"
              THEN /\ df' = MergedTable(df.columns,
                                JoinCandidate(df.rows, file.table, grant_col, date_col),
                                DetectAmountCol(file.table.columns))
                   /\ amount_col' = "award_amount_merged"
                   /\ pc' = "aggregate"
                   /\ UNCHANGED next_cand
              ELSE /\ next_cand' = next_cand + 1
                   /\ UNCHANGED <<pc, df, amount_col>>
    /\ UNCHANGED <<pickVars, typeVars, roleVars, candidates, fs, src, err, status, agg, written>>

\* the loop ran out, and the run goes on with every amount missing
Merge_Exhausted_GoesOn ==
    /\ pc = "walk"
    /\ next_cand > Len(candidates)
    /\ df' = SetColumn(df, "award_amount_merged", [k \in 1..Len(df.rows) |-> NA])
    /\ amount_col' = "award_amount_merged"
    /\ pc' = "aggregate"
    /\ UNCHANGED <<pickVars, typeVars, roleVars, walkVars, fs, src, stderr, err, status, agg,
                   written>>

\* the loop ran out: raise RuntimeError("Could not obtain dollars. ...")
Merge_Exhausted ==
    /\ pc = "walk"
    /\ next_cand > Len(candidates)
    /\ err' = RuntimeError(MsgExhausted)
    /\ pc' = "raised"
    /\ UNCHANGED <<pickVars, typeVars, roleVars, walkVars, fs, src, df, amount_col, stderr,
                   status, agg, written>>

\* df["amount_value"] = pd.to_numeric(df[amount_col], errors="coerce").fillna(0.0)
AmountValue(r, acol) == FillNA(ToNumeric(r[acol]), Num(0)).v

\* end_2025 = min(today, date(2025, 12, 31))
End2025(today) == IF today < YMD(2025, 12, 31) THEN today ELSE YMD(2025, 12, 31)
\* end_2024 = _same_month_day(2024, end_2025.month, end_2025.day)
End2024(today) == SameMonthDay(2024, MonthOf(End2025(today)), DayOf(End2025(today)))

\* mask_2025 | mask_2024
InWindow(d, today) ==
    \/ (d >= YMD(2025, 1, 1) /\ d <= End2025(today))
    \/ (d >= YMD(2024, 1, 1) /\ d <= End2024(today))

KeepTypes == {"new", "competing_renewal", "supplement"}

\* the grouping key of a row; week_of_year is a function of week_start and is
\* left out of the key
GroupKey(r, dcol) ==
    [year          |-> YearOf(r[dcol].v),
     week_start    |-> WeekStart(r[dcol].v),
     admin_ic      |-> r["admin_ic"].v,
     mechanism     |-> r["mechanism"].v,
     activity_code |-> r["activity_code"].v,
     org_name_norm |-> r["org_name_norm"].v,
     type_category |-> r["type_category"].v]

RECURSIVE SumValues(_, _)
SumValues(rows, acol) ==
    IF Len(rows) = 0 THEN 0 ELSE AmountValue(Head(rows), acol) + SumValues(Tail(rows), acol)

\* the windowed, type-filtered rows grouped by key, amounts summed
Aggregate(rows, dcol, acol, today) ==
    LET Kept(r) == InWindow(r[dcol].v, today) /\ r["type_category"].v \in KeepTypes
        kept == SelectSeq(rows, Kept)
        keys == {GroupKey(kept[k], dcol) : k \in 1..Len(kept)}
        RowsOf(key) == LET Same(r) == GroupKey(r, dcol) = key IN SelectSeq(kept, Same)
    IN  {[key |-> key, amount |-> SumValues(RowsOf(key), acol)] : key \in keys}

Main_Aggregate ==
    /\ pc = "aggregate"
    /\ agg' = Aggregate(df.rows, date_col, amount_col, fs.today)
    /\ pc' = "write_ytd"
    /\ UNCHANGED <<pickVars, typeVars, roleVars, walkVars, fs, src, df, amount_col, stderr,
                   err, status, written>>

\* with open(out, "w") as f: json.dump(records, f)
Main_WriteYtd ==
    /\ pc = "write_ytd"
    /\ written' = Append(written, [file |-> "ytd_2024_2025.json", content |-> agg])
    /\ pc' = "write_picklists"
    /\ UNCHANGED <<pickVars, typeVars, roleVars, walkVars, fs, src, df, amount_col, stderr,
                   err, status, agg>>

\* sorted([x for x in agg[...].dropna().unique().tolist() if x])
Distinct_NonEmpty(S) == {x \in S : x # ""}

Picklists ==
    [institutions   |-> Distinct_NonEmpty({a.key.org_name_norm : a \in agg}),
     ics            |-> Distinct_NonEmpty({a.key.admin_ic : a \in agg}),
     mechanisms     |-> Distinct_NonEmpty({a.key.mechanism : a \in agg}),
     activity_codes |-> Distinct_NonEmpty({a.key.activity_code : a \in agg}),
     type_options   |-> <<"new", "competing_renewal", "supplement">>,
     meta           |-> [cutoff_2025 |-> End2025(fs.today),
                         cutoff_2024 |-> End2024(fs.today),
                         source_file |-> src,
                         measurement |-> "amount_usd"]]

\* with open(BASE / "picklists.json", "w") as f: json.dump(pick, f, indent=2); return 0
Main_WritePicklists ==
    /\ pc = "write_picklists"
    /\ written' = Append(written, [file |-> "picklists.json", content |-> Picklists])
    /\ status' = "0"
    /\ pc' = "exited"
    /\ UNCHANGED <<pickVars, typeVars, roleVars, walkVars, fs, src, df, amount_col, stderr,
                   err, agg>>

Next ==
    \/ Main_FindSource
    \/ Main_ResolveColumns
    \/ Main_ParseBasics
    \/ Merge_Begin
    \/ Merge_TryCandidate
    \/ Merge_Exhausted
    \/ Main_Aggregate
    \/ Main_WriteYtd
    \/ Main_WritePicklists

(***************************************************************************)
(* Inputs of a run                                                         *)
(***************************************************************************)
MaxDropped   == 2    \* most columns the primary table lacks of the full schema
MaxSidecars  == 2    \* most files in the reporter directory
MaxRows      == 2    \* most primary rows, where the rows vary
MaxSideRows  == 2    \* most sidecar rows, where the rows vary

\* what the cells of a column hold, by column name
ColumnKind(name) ==
    CASE name = "grant_number"  -> "id"
      [] name = "award_date"    -> "date"
      [] name = "admin_ic"      -> "ic"
      [] name = "org_name"      -> "org"
      [] name = "activity_code" -> "act"
      [] name = "type_code"     -> "tcode"
      [] name = "award_type"    -> "ttext"
      [] name = "total_cost"    -> "amt"
      [] name = "award_amount"  -> "amt"
      [] OTHER                  -> "note"

\* a table with the given columns, holding the given records
Table(columns, recs) ==
    [columns |-> columns,
     rows    |-> [k \in 1..Len(recs) |-> [c \in Range(columns) |-> recs[k][ColumnKind(c)]]]]

Rec(id, date, ic, org, act, tcode, ttext, amt) ==
    [id |-> id, date |-> date, ic |-> ic, org |-> org, act |-> act, tcode |-> tcode,
     ttext |-> ttext, amt |-> amt, note |-> Str("-")]

FullSchema == <<"grant_number", "award_date", "admin_ic", "org_name", "activity_code",
                "type_code", "award_type", "total_cost">>

\* FullSchema without the columns in `dropped`
Without(schema, dropped) == LET Kept(c) == c \notin dropped IN SelectSeq(schema, Kept)

PrimarySchemas ==
    {Without(FullSchema, D) : D \in {X \in SUBSET Range(FullSchema) : Cardinality(X) <= MaxDropped}}

NoAmountSchema == Without(FullSchema, {"total_cost"})

RecA == Rec(Str("G1"), Str("2025-03-03"), Str(" nci"), Str(" Univ  of A "), Str("r01"),
            Num(10), Str("New"), Num(1000))
RecB == Rec(Str("G2"), Str("2024-03-04"), NA, NA, Str(""),
            Num(15), Str("Competing Renewal"), NA)
RecC == Rec(Str("G1"), Str("n/a"), Str("NCI"), Str("Univ of A"), Str("z01"),
            Num(30), Str("Supplement"), Num(55))

MainRecords == {<<RecA, RecB, RecC>>, <<RecB>>}

\* a sidecar record: identifier, date text, amount
SideRec(id, date, amt) == Rec(id, date, NA, NA, NA, NA, NA, amt)

StrictSchema    == <<"grant_number", "award_date", "total_cost">>
GrantOnlySchema == <<"grant_number", "total_cost">>
AwardAmountSchema == <<"grant_number", "award_amount">>

File(readable, table) == [readable |-> readable, table |-> table]

\* The sidecar files a reporter directory may hold.
CatalogNames ==
    {"amounts_2023.csv", "award_amounts.csv", "cost_amounts.csv", "amount_notes.csv",
     "amount_by_org.csv.zst", "old_amounts.csv.zst", "nih_award_amounts.parquet",
     "amount_readme.txt"}

Catalog(name) ==
    CASE name = "amounts_2023.csv" ->           \* cannot be read
            File(FALSE, Table(<<>>, <<>>))
      [] name = "award_amounts.csv" ->           \* identifier, date, amount
            File(TRUE, Table(StrictSchema,
                <<SideRec(Str("G1"), Str("2025-03-03"), Num(1000)),
                  SideRec(Str("G2"), Str("2024-03-04"), Num(250))>>))
      [] name = "cost_amounts.csv" ->            \* identifier, amount
            File(TRUE, Table(GrantOnlySchema,
                <<SideRec(Str("G1"), NA, Num(70)), SideRec(Str("G1"), NA, Num(30))>>))
      [] name = "amount_notes.csv" ->            \* no amount column
            File(TRUE, Table(<<"grant_number", "award_date", "note">>,
                <<SideRec(Str("G1"), Str("2025-03-03"), NA)>>))
      [] name = "amount_by_org.csv.zst" ->       \* no identifier column
            File(TRUE, Table(<<"org_name", "total_cost">>,
                <<SideRec(NA, NA, Num(500))>>))
      [] name = "old_amounts.csv.zst" ->         \* no row matches the primary table
            File(TRUE, Table(StrictSchema,
                <<SideRec(Str("G9"), Str("2025-03-03"), Num(40)),
                  SideRec(Str("G1"), Str("2025-03-03"), NA)>>))
      [] name = "nih_award_amounts.parquet" ->   \* identifier, award_amount
            File(TRUE, Table(AwardAmountSchema,
                <<SideRec(Str("G1"), NA, Num(900))>>))
      [] OTHER ->                                \* not a table
            File(FALSE, Table(<<>>, <<>>))

Listings(names, n) == {q \in SeqsUpTo(names, n) : Distinct(q)}

Sidecars(listing) == [name \in Range(listing) |-> Catalog(name)]

IdleRun ==
    /\ pc = "main"
    /\ cols = <<>> /\ type_code_col = None /\ type_text_col = None
    /\ IdlePick /\ IdleType /\ IdleRoles
    /\ src = None /\ df = [columns |-> <<>>, rows |-> <<>>] /\ amount_col = None
    /\ candidates = <<>> /\ next_cand = 0 /\ loaded = <<>>
    /\ stderr = <<>> /\ err = NoError /\ status = None /\ agg = {} /\ written = <<>>

\* A run of main over primary tables that lack columns of the full schema.
Init ==
    /\ IdleRun
    /\ \E existing \in SUBSET {SRC_MAIN_1, SRC_MAIN_2},
          schema \in PrimarySchemas,
          recs \in MainRecords,
          listing \in {<<>>, <<"amounts_2023.csv">>,
                       <<"amounts_2023.csv", "award_amounts.csv">>,
                       <<"old_amounts.csv.zst", "amount_notes.csv">>},
          today \in {YMD(2025, 3, 10), YMD(2026, 1, 15)} :
        fs = [exists |-> existing, main |-> Table(schema, recs),
              sidecars |-> Sidecars(listing), listing |-> listing, today |-> today]

Spec == Init /\ [][Next]_vars

\* A run over a primary table without amount column, and every reporter
\* directory of catalogue files, listed in every order.
InitWalk ==
    /\ IdleRun
    /\ \E recs \in MainRecords, listing \in Listings(CatalogNames, MaxSidecars) :
        fs = [exists |-> {SRC_MAIN_1}, main |-> Table(NoAmountSchema, recs),
              sidecars |-> Sidecars(listing), listing |-> listing,
              today |-> YMD(2025, 3, 10)]

SpecWalk == InitWalk /\ [][Next]_vars

\* A run over a primary table without amount column and one sidecar file,
\* the rows of both varying (the primary rows distinct, the sidecar rows
\* with repetitions).
JoinLeft(id, d) == Rec(Str(id), Str(d), Str("NCI"), Str("Univ of A"), Str("R01"), Num(10),
                       Str("New"), NA)
JoinLeftPool == {JoinLeft("G1", "2025-03-03"), JoinLeft("G2", "2025-03-03"),
                 JoinLeft("G1", "1970-01-01")}

JoinRightPool(schema) ==
    IF schema = StrictSchema
    THEN {SideRec(Str("G1"), Str("2025-03-03"), Num(100)),
          SideRec(Str("G1"), Str("2025-03-03"), Num(25)),
          SideRec(Str("G1"), Str("2025-03-03"), NA),
          SideRec(Str("G2"), Str("2025-03-03"), Num(100))}
    ELSE IF schema = GrantOnlySchema
    THEN {SideRec(Str("G1"), NA, Num(100)), SideRec(Str("G1"), NA, Num(25)),
          SideRec(Str("G1"), NA, NA), SideRec(Str("G2"), NA, Num(100))}
    ELSE {SideRec(Str("G1"), NA, Num(100)), SideRec(Str("G2"), NA, Num(25))}

JoinSchemas == <<StrictSchema, GrantOnlySchema, AwardAmountSchema>>

InitJoin ==
    /\ IdleRun
    /\ \E n \in 1..Len(JoinSchemas),
          left \in {q \in SeqsUpTo(JoinLeftPool, MaxRows) : Distinct(q)} :
        \E right \in SeqsUpTo(JoinRightPool(JoinSchemas[n]), MaxSideRows) :
            fs = [exists |-> {SRC_MAIN_1}, main |-> Table(NoAmountSchema, left),
                  sidecars |-> [name \in {"nih_award_amounts.csv.zst"} |->
                                   File(TRUE, Table(JoinSchemas[n], right))],
                  listing |-> <<"nih_award_amounts.csv.zst">>,
                  today |-> YMD(2025, 3, 10)]

SpecJoin == InitJoin /\ [][Next]_vars

(***************************************************************************)
(* Claims about _merge_in_amounts_if_needed and main                       *)
(***************************************************************************)
\* the rows handed to the reconciler, computed from the primary file (the
\* roles being resolved)
LeftRows == ParsedBasics(fs.main).rows

\* the run got past the amount reconciliation by accepting a sidecar
Accepted == amount_col = "award_amount_merged"
\* the sidecar accepted, and its table
AcceptedPath == candidates[Len(loaded)]
AcceptedTable == fs.sidecars[AcceptedPath].table

\* sidecar p can be loaded and has an amount and an identifier column
Usable(p) ==
    /\ fs.sidecars[p].readable
    /\ DetectAmountCol(fs.sidecars[p].table.columns) # None
    /\ DetectGrantCol(fs.sidecars[p].table.columns) # None

\* the left join of the primary rows with sidecar p yields a non-null amount
JoinYieldsAmount(p) ==
    /\ Usable(p)
    /\ LET t == fs.sidecars[p].table
           m1 == JoinCandidate(LeftRows, t, grant_col, date_col)
       IN  \E k \in 1..Len(m1) : ~IsNA(m1[k][DetectAmountCol(t.columns)])

\* discovery order: the names matching a pattern, by pattern and then by
\* position in the directory listing
PatternRank(name) ==
    IF EndsWith(name, ".csv.zst") THEN 1
    ELSE IF EndsWith(name, ".csv") THEN 2
    ELSE IF EndsWith(name, ".feather") THEN 3
    ELSE 4
Position(q, x) == CHOOSE k \in 1..Len(q) : q[k] = x
InDiscoveryOrder(cands, listing) ==
    /\ Range(cands) = {n \in Range(listing) :
                          /\ In("amount", n)
                          /\ \E ext \in {".csv.zst", ".csv", ".feather", ".parquet"} :
                                EndsWith(n, ext)}
    /\ Distinct(cands)
    /\ \A a, b \in 1..Len(cands) :
          a < b => \/ PatternRank(cands[a]) < PatternRank(cands[b])
                   \/ /\ PatternRank(cands[a]) = PatternRank(cands[b])
                      /\ Position(listing, cands[a]) < Position(listing, cands[b])

Warnings(paths) ==
    LET Unreadable(p) == ~fs.sidecars[p].readable
        bad == SelectSeq(paths, Unreadable)
    IN  [k \in 1..Len(bad) |-> "[warn] Could not read " \o bad[k]]

\* C4: without a primary amount column the candidates are walked in discovery
\* order; one that cannot be loaded (with a warning), or lacks an amount or an
\* identifier column, or joins to no amount, is passed over without ending the
\* run; the table returned is the join with the first candidate whose join
\* yields a non-null amount, and no later candidate is loaded.
C4_FirstJoinableCandidate ==
    /\ pc \in {"walk", "aggregate", "write_ytd", "write_picklists", "exited"}
        => /\ InDiscoveryOrder(candidates, fs.listing)
           /\ Len(loaded) <= Len(candidates)
           /\ loaded = SubSeq(candidates, 1, Len(loaded))
           /\ stderr = Warnings(loaded)
           /\ err = NoError
    /\ pc = "walk"
        => /\ Len(loaded) = next_cand - 1
           /\ \A k \in 1..Len(loaded) : ~JoinYieldsAmount(loaded[k])
    /\ (pc \in {"aggregate", "write_ytd", "write_picklists", "exited"} /\ Accepted)
        => /\ \A k \in 1..(Len(loaded) - 1) : ~JoinYieldsAmount(loaded[k])
           /\ JoinYieldsAmount(AcceptedPath)
           /\ df.rows = RenameColumn(
                            JoinCandidate(LeftRows, AcceptedTable, grant_col, date_col),
                            DetectAmountCol(AcceptedTable.columns), "award_amount_merged")
    /\ pc = "raised"
        => /\ err.msg \in {MsgNoSidecar, MsgExhausted}
           /\ err.msg = MsgNoSidecar => candidates = <<>>
           /\ err.msg = MsgExhausted =>
                /\ loaded = candidates
                /\ \A k \in 1..Len(candidates) : ~JoinYieldsAmount(candidates[k])

\* The first candidate could not be read and drew a warning, the second was
\* joined on (identifier, date) and its merge was returned.
C4_Witness ==
    /\ pc = "exited" /\ status = "0" /\ Accepted
    /\ Len(loaded) = 2
    /\ ~fs.sidecars[loaded[1]].readable
    /\ stderr = <<"[warn] Could not read " \o loaded[1]>>
    /\ DetectDateCol(AcceptedTable.columns) = "award_date"

\* A later candidate was left unloaded after the first one was accepted.
C4_StoppedEarly ==
    /\ pc = "exited" /\ Accepted
    /\ Len(loaded) < Len(candidates)
    /\ JoinYieldsAmount(candidates[Len(candidates)])

\* the sidecar first accepted when the candidates are walked in order cands
RECURSIVE FirstAccepted(_)
FirstAccepted(cands) ==
    IF Len(cands) = 0 THEN None
    ELSE IF JoinYieldsAmount(Head(cands)) THEN Head(cands)
    ELSE FirstAccepted(Tail(cands))

\* the aggregate written by a run that finds the directory listed as q
OutputFor(q) ==
    LET p == FirstAccepted(GlobCandidates(q))
        t == fs.sidecars[p].table
        m1 == JoinCandidate(LeftRows, t, grant_col, date_col)
    IN  IF p = None THEN {}
        ELSE Aggregate(RenameColumn(m1, DetectAmountCol(t.columns), "award_amount_merged"),
                       date_col, "award_amount_merged", fs.today)

\* every order in which the directory can list the same files
Relistings == {q \in Listings(Range(fs.listing), Len(fs.listing)) :
                 Len(q) = Len(fs.listing)}

\* C6: the aggregate output of a run is a function of the primary table, the
\* set of sidecar files and today: whatever the order in which the directory
\* lists the files, the same sidecar is accepted and the same aggregate written.
C6_ListingOrderIrrelevant ==
    (pc = "exited" /\ status = "0") =>
        \A q \in Relistings :
            /\ FirstAccepted(GlobCandidates(q)) = AcceptedPath
            /\ OutputFor(q) = agg

\* the exceptions main can end with, one per raise statement
FatalErrors == {RuntimeError(MsgNoDate), RuntimeError(MsgNoGrant), RuntimeError(MsgNoIc),
                RuntimeError(MsgNoSidecar), RuntimeError(MsgExhausted)}

\* C7: the two failures of the reconciler (no sidecar candidate at all; every
\* candidate tried without a non-null amount) differ in error kind from each
\* other and from the other fatal errors, and the second names every
\* candidate tried.
C7_DistinctErrorKinds ==
    (pc = "raised" /\ err.msg \in {MsgNoSidecar, MsgExhausted}) =>
        /\ \A e \in FatalErrors : e.msg # err.msg => e.kind # err.kind
        /\ err.msg = MsgExhausted => \A k \in 1..Len(loaded) : In(loaded[k], err.msg)

\* the run is past the reconciliation
PastMerge == pc \in {"aggregate", "write_ytd", "write_picklists", "exited"}

\* the sidecar file holds a column of dates
FileHasDateColumn(t) == \E c \in Range(t.columns) : ColumnKind(c) = "date"

\* the sidecar rows (as loaded) whose identifier is id
RowsWithId(t, id) ==
    LET g == DetectGrantCol(t.columns)
        Same(r) == CellEq(r[g], id)
    IN  SelectSeq(t.rows, Same)

RECURSIVE SumNonNull(_, _)
SumNonNull(rows, c) ==
    IF Len(rows) = 0 THEN 0
    ELSE (IF IsNA(Head(rows)[c]) THEN 0 ELSE Head(rows)[c].v) + SumNonNull(Tail(rows), c)

\* the merged amount of each row is the sum over the sidecar rows with the
\* row's identifier, and missing when the identifier is not in the sidecar
MergedAmountsAreSums ==
    \A k \in 1..Len(df.rows) :
        LET same == RowsWithId(AcceptedTable, df.rows[k][grant_col])
        IN  IF Len(same) > 0
            THEN /\ df.rows[k]["award_amount_merged"].t \in {"num", "na"}
                 /\ AmountValue(df.rows[k], "award_amount_merged")
                      = SumNonNull(same, DetectAmountCol(AcceptedTable.columns))
            ELSE IsNA(df.rows[k]["award_amount_merged"])

\* C5: when the accepted sidecar has no date column, the merged amount of a
\* primary row is the sum of the amounts of the sidecar rows sharing its
\* identifier (null amounts left out), and null when no sidecar row shares it.
C5_GrantOnlySum ==
    (PastMerge /\ Accepted /\ ~FileHasDateColumn(AcceptedTable)) => MergedAmountsAreSums

\* the same, for the sidecars in which the code resolves no date column
C5_SumWhenNoDateResolved ==
    (PastMerge /\ Accepted /\ DetectDateCol(AcceptedTable.columns) = None)
        => MergedAmountsAreSums

\* a sum over two sidecar rows was merged under the identifier-only join
C5_SumReached ==
    /\ PastMerge /\ Accepted /\ DetectDateCol(AcceptedTable.columns) = None
    /\ \E k \in 1..Len(df.rows) : df.rows[k]["award_amount_merged"] = Num(125)
    /\ \E k \in 1..Len(df.rows) : IsNA(df.rows[k]["award_amount_merged"])

\* C10 as claimed: the table returned has exactly one row per primary row,
\* under either join.
C10_OneRowPerPrimaryRow ==
    (PastMerge /\ Accepted) => Len(df.rows) = Len(LeftRows)

\* how many sidecar rows of the accepted table match primary row l: rows with
\* an amount, the same identifier and the same (converted) date
MatchCount(l) ==
    LET t == AcceptedTable
        amt2 == DetectAmountCol(t.columns)
        date2 == DetectDateCol(t.columns)
        grant2 == DetectGrantCol(t.columns)
        Cell(r, c) == IF c = date2 THEN ParseDate(r[c]) ELSE r[c]
    IN  Cardinality({k \in 1..Len(t.rows) :
            /\ ~IsNA(Cell(t.rows[k], amt2))
            /\ CellEq(l[grant_col], Cell(t.rows[k], grant2))
            /\ CellEq(l[date_col], Cell(t.rows[k], date2))})

\* the rows the returned table holds for primary row l
RowsExpected(l) ==
    IF DetectDateCol(AcceptedTable.columns) = None THEN 1
    ELSE IF MatchCount(l) = 0 THEN 1 ELSE MatchCount(l)

RECURSIVE Repeat(_, _)
Repeat(x, n) == IF n = 0 THEN <<>> ELSE <<x>> \o Repeat(x, n - 1)
RECURSIVE Expanded(_)
Expanded(rows) ==
    IF Len(rows) = 0 THEN <<>>
    ELSE Repeat(Head(rows), RowsExpected(Head(rows))) \o Expanded(Tail(rows))

\* a merged row, cut down to the primary table's columns
LeftPart(r) == [c \in DOMAIN LeftRows[1] |-> r[c]]

\* C10, amended: the table returned keeps every primary row, in order: once
\* under the identifier-only join, and under the (identifier, date) join once
\* per matching sidecar row (once, with a null amount, when none matches).
C10_EveryPrimaryRowKept ==
    (PastMerge /\ Accepted) =>
        /\ Len(df.rows) >= Len(LeftRows)
        /\ [k \in 1..Len(df.rows) |-> LeftPart(df.rows[k])] = Expanded(LeftRows)
        /\ DetectDateCol(AcceptedTable.columns) = None => Len(df.rows) = Len(LeftRows)

\* Under the (identifier, date) join one primary row matched two sidecar rows
\* and another matched none: three rows were returned for two.
C10_Witness ==
    /\ PastMerge /\ Accepted
    /\ DetectDateCol(AcceptedTable.columns) = "award_date"
    /\ Len(LeftRows) = 2
    /\ MatchCount(LeftRows[1]) = 2
    /\ MatchCount(LeftRows[2]) = 0
    /\ Len(df.rows) = 3

\* the fatal conditions, read off the files
NoPrimary == fs.exists \cap {SRC_MAIN_1, SRC_MAIN_2} = {}
NoDateColumn  == DetectDateCol(fs.main.columns) = None
NoGrantColumn == DetectGrantCol(fs.main.columns) = None
NoIcColumn    == DetectIcCol(fs.main.columns) = None
NoOrgColumn   == "org_name" \notin Range(fs.main.columns)
NoPrimaryAmount == DetectAmountCol(ParsedBasics(fs.main).columns) = None
NoSidecar   == GlobCandidates(fs.listing) = <<>>
NoneJoins   == \A p \in Range(GlobCandidates(fs.listing)) : ~JoinYieldsAmount(p)

\* the primary rows whose date parses
RowsWithDate == LET Parses(r) == ~IsNA(ParseDate(r[date_col])) IN SelectSeq(fs.main.rows, Parses)

C8_OptionalAbsent ==
    /\ pc = "exited" /\ status = "0"
    /\ act_col = None
    /\ Len(df.rows) > 0
    /\ Len(written) = 2

\* A run without type columns wrote both files.
C8_TypeAbsent ==
    /\ pc = "exited" /\ status = "0"
    /\ type_code_col = None /\ type_text_col = None
    /\ Len(df.rows) > 0

(***************************************************************************)
(* Claims about _pick_col (under SpecPick)                                 *)
(***************************************************************************)
Min(S) == CHOOSE x \in S : \A y \in S : x <= y

\* positions of the exact candidates that some column's lowercased name equals
ExactHits == {i \in 1..Len(exact) : \E j \in 1..Len(cols) : Lower(cols[j]) = exact[i]}
\* positions of the columns whose lowercased name contains a contains-candidate
ContainsHits == {j \in 1..Len(cols) : \E sub \in contains : In(sub, Lower(cols[j]))}
\* the column lists holding the same columns as cols, in any order
Reorderings == {q \in ColumnLists :
                  Len(q) = Len(cols) /\ {q[i] : i \in 1..Len(q)} = {cols[i] : i \in 1..Len(cols)}}

\* C1: _pick_col returns the column matching the earliest exact candidate that
\* any column matches (whatever the column order and whatever columns match
\* only by substring); failing that, the first column in column order that
\* contains a contains-candidate; failing that, None.
C1_PickColContract ==
    pc = "returned" =>
        IF ExactHits # {}
        THEN /\ Lower(picked) = exact[Min(ExactHits)]
             /\ picked = cols[Min({j \in 1..Len(cols) : Lower(cols[j]) = exact[Min(ExactHits)]})]
             /\ \A q \in Reorderings : Lower(PickCol(q, exact, contains)) = Lower(picked)
        ELSE IF ContainsHits # {}
        THEN picked = cols[Min(ContainsHits)]
        ELSE picked = None

\* An exact match for the second candidate stands behind a column that only
\* contains a contains-candidate, and the exact match was returned.
C1_Witness ==
    /\ pc = "returned"
    /\ ExactHits # {} /\ Min(ExactHits) > 1
    /\ ContainsHits # {}
    /\ Min(ContainsHits) < Min({j \in 1..Len(cols) : Lower(cols[j]) = exact[Min(ExactHits)]})
    /\ Lower(cols[Min(ContainsHits)]) \notin {exact[i] : i \in 1..Len(exact)}
    /\ Lower(picked) = exact[Min(ExactHits)]

(***************************************************************************)
(* Claims about _map_type_category (under SpecType)                        *)
(***************************************************************************)
\* the category the code value alone stands for: 1..5 exactly, else other
CategoryOfExactCode(c) ==
    LET n == ToNumeric(c)
    IN  IF IsNA(n) THEN "other"
        ELSE IF n.v = 10 THEN "new"
        ELSE IF n.v = 20 THEN "competing_renewal"
        ELSE IF n.v = 30 THEN "supplement"
        ELSE IF n.v = 40 THEN "extension"
        ELSE IF n.v = 50 THEN "noncompeting_continuation"
        ELSE "other"

\* C2: with a type-code column, a row is classified by its exact code value:
\* 1..5 map to the five categories and every other number (fractions
\* included), unparsable or missing code maps to other.
C2_ExactCodeOnly ==
    (pc = "returned" /\ type_code_col # None) =>
        category = CategoryOfExactCode(row[type_code_col])

\* the lowercased label the text rules read
LabelText == Lower(AsStr(row["award_type"]))
TextClassified == pc = "returned" /\ type_code_col = None /\ type_text_col # None

\* C3: without a code column, a label containing "non" and "comp" (and
\* neither "new" nor "supp") is noncompeting_continuation, never
\* competing_renewal; with neither column every row is other.
C3_NonCompetingFirst ==
    /\ (TextClassified /\ In("non", LabelText) /\ In("comp", LabelText)
          /\ ~In("new", LabelText) /\ ~In("supp", LabelText))
        => category = "noncompeting_continuation"
    /\ (pc = "returned" /\ type_code_col = None /\ type_text_col = None)
        => category = "other"

\* "Non-Competing Continuation" was classified from the text column.
C3_Witness ==
    /\ TextClassified
    /\ row["award_type"] = Str("Non-Competing Continuation")
    /\ category = "noncompeting_continuation"

\* C9: under text classification no label containing "renew" is
\* competing_renewal (each is new), and competing_renewal is produced only
\* for labels with "comp" and "continuation" and none of "new", "supp",
\* "non", "exten".
C9_RenewIsNew ==
    TextClassified =>
        /\ In("renew", LabelText) => category = "new"
        /\ category = "competing_renewal" =>
              /\ In("comp", LabelText) /\ In("continuation", LabelText)
              /\ ~In("new", LabelText) /\ ~In("supp", LabelText)
              /\ ~In("non", LabelText) /\ ~In("exten", LabelText)

\* "Competing Renewal" was classified from the text column, as new.
C9_Witness ==
    /\ TextClassified
    /\ row["award_type"] = Str("Competing Renewal")
    /\ category = "new"

\* competing_renewal is produced at all (the second half of C9 is not vacuous)
C9_CompetingReached ==
    TextClassified /\ category = "competing_renewal"

====
